---- MODULE Spec2Model ----
(***************************************************************************)
(* Model of the knowledge-base RAG pipeline:                               *)
(*   - rag/vector_db_providers/qdrant.py : Qdrant._chunk_text,             *)
(*     Qdrant.index_files, Qdrant.search_similar                           *)
(*   - rag/rag.py : feedback_or_query, generate_manifest_change,           *)
(*     query_with_rag                                                      *)
(*   - tests/test_rag.py : the interactive loop of main()                  *)
(*                                                                         *)
(* A text is a sequence of string pieces and a token is the number of a    *)
(* piece in Vocab: tokenizer.encode maps pieces to numbers and             *)
(* tokenizer.decode maps numbers back to pieces.                           *)
(***************************************************************************)
EXTENDS Integers, Sequences, FiniteSets, TLC

\* ------------------------------------------------------------------ bounds
\* longest token sequence handed to _chunk_text in SpecChunk
MaxLen == 4
\* largest max_tokens argument tried in SpecChunk
MaxMT == 3
\* largest overlap argument tried in SpecChunk
MaxOv == 3
\* number of points the collection may hold before index_files is no longer tried
MaxPoints == 2

\* ------------------------------------------------------- program constants
\* default max_tokens of _chunk_text
DefaultMaxTokens == 500
\* default overlap of _chunk_text
DefaultOverlap == 50
\* default max_context_length of query_with_rag
DefaultMaxContextLength == 3000
\* limit passed by query_with_rag to search_similar
QueryLimit == 10

\* --------------------------------------------------------------- tokenizer
\* the pieces the tokenizer knows; a token is an index into Vocab
Vocab == << "w", " ", "From ", ":\n", "\n\n", "a.txt", "b.txt", "c.txt", "d.txt", "e.txt" >>

TokenOf(piece) == CHOOSE k \in DOMAIN Vocab : Vocab[k] = piece

\* tokenizer.encode(text)
Encode(text) == [i \in 1..Len(text) |-> TokenOf(text[i])]

\* tokenizer.decode(tokens)
Decode(tokens) == [i \in 1..Len(tokens) |-> Vocab[tokens[i]]]

\* the tokens of document text (a word and a blank)
DocTokens == {TokenOf("w"), TokenOf(" ")}

\* str.strip() leaves nothing: every piece is whitespace
IsBlank(text) == \A i \in 1..Len(text) : text[i] \in {" ", "\n\n"}

Min(a, b) == IF a < b THEN a ELSE b

\* Python's s[i:j] for 0 <= i and 0 <= j (j is clamped to len(s))
PySlice(s, i, j) == SubSeq(s, i + 1, Min(j, Len(s)))

\* ---------------------------------------------------------------- chunking
\* the step of range(0, len(tokens), max_tokens - overlap), mutated: the
\* overlap is forgotten
StrideNoOverlap(max_tokens, overlap) == max_tokens

\* the step of range(0, len(tokens), max_tokens - overlap)
Stride(max_tokens, overlap) == max_tokens - overlap

\* the loop body of _chunk_text for i, i + step, ... while i < len(tokens)
RECURSIVE ChunkLoop(_, _, _, _)
ChunkLoop(tokens, max_tokens, step, i) ==
    IF i >= Len(tokens)
    THEN << >>
    ELSE << Decode(PySlice(tokens, i, i + max_tokens)) >>
         \o ChunkLoop(tokens, max_tokens, step, i + step)

\* _chunk_text(text, max_tokens, overlap): range() raises ValueError on a zero
\* step and is empty on a negative step
ChunkText(text, max_tokens, overlap) ==
    LET tokens == Encode(text)
        step == Stride(max_tokens, overlap)
    IN  IF step = 0
        THEN [status |-> "ValueError", chunks |-> << >>]
        ELSE IF step < 0
        THEN [status |-> "ok", chunks |-> << >>]
        ELSE [status |-> "ok", chunks |-> ChunkLoop(tokens, max_tokens, step, 0)]

\* ------------------------------------------------------------ file system
\* the *.txt files an index_files pattern can match, with their content
Files == {"a.txt", "b.txt", "c.txt", "d.txt", "e.txt"}

\* d.txt is a document of 1200 tokens; e.txt one of 1200 tokens whose tokens
\* 451..950 are blanks
FileContent(f) ==
    CASE f = "a.txt" -> << "w", "w" >>
      [] f = "b.txt" -> << "w", " ", "w" >>
      [] f = "c.txt" -> << " " >>
      [] f = "d.txt" -> [i \in 1..1200 |-> "w"]
      [] f = "e.txt" -> [i \in 1..1200 |-> IF i \in 451..950 THEN " " ELSE "w"]

\* what glob.glob(file_pattern) can return
GlobResults == { << >>, << "a.txt" >>, << "b.txt" >>, << "c.txt" >>, << "a.txt", "b.txt" >> }

\* what glob.glob(file_pattern) can return in a directory with long documents
LongGlobResults ==
    GlobResults \cup { << "d.txt" >>, << "e.txt" >>, << "d.txt", "e.txt" >>,
                       << "a.txt", "d.txt" >>, << "c.txt", "e.txt" >> }

\* the document categories (sub-directories of the documents directory)
Categories == {"categoryA", "categoryB"}

\* select_category returns None for "All categories"
None == "None"

\* ------------------------------------------------------------------- state
VARIABLES
    ck_text,           \* SpecChunk: the text argument of _chunk_text
    ck_max_tokens,     \* SpecChunk: the max_tokens argument
    ck_overlap,        \* SpecChunk: the overlap argument
    ck_result,         \* SpecChunk: what the call produced ("none" before it)
    index,             \* the points of the Qdrant collection
    nextId,            \* the next fresh point id (uuid4)
    manifest,          \* the manifest file: [exists, text]
    pc,                \* position of main()'s loop
    selected_category, \* main(): selected_category
    message,           \* main(): the message of the current turn
    classifier_content,\* feedback_or_query: the content of the model response
    message_with_type, \* main(): what feedback_or_query returned
    feedback,          \* the feedback argument of generate_manifest_change
    revised,           \* what generate_manifest_change returned
    search_tag,        \* the tag argument of the turn's search_similar
    search_results,    \* what the turn's search_similar returned
    budget,            \* the max_context_length argument of query_with_rag
    context,           \* query_with_rag: the context string
    answer,            \* what query_with_rag returned
    calls,             \* the chat completion calls issued in the current turn
    output,            \* what main() printed last for the turn
    raised,            \* the exception main() caught in the turn ("none" if none)
    last_index,        \* the last index_files call: its tag, files, errors, point ids
    epc,               \* SpecEdit: position of each concurrent feedback turn
    efeedback,         \* SpecEdit: the feedback of each turn
    eread,             \* SpecEdit: the manifest text each turn read
    erevised           \* SpecEdit: the revised text each turn got back

ckvars == << ck_text, ck_max_tokens, ck_overlap, ck_result >>

dbvars == << index, nextId, last_index >>

edvars == << epc, efeedback, eread, erevised >>

turnvars == << message, classifier_content, message_with_type, feedback, revised, search_tag,
               search_results, budget, context, answer, calls, output, raised >>

vars == << ck_text, ck_max_tokens, ck_overlap, ck_result, index, nextId,
           manifest, pc, selected_category, message, classifier_content,
           message_with_type, feedback, revised, search_tag, search_results, budget, context,
           answer, calls, output, raised, last_index, epc, efeedback, eread,
           erevised >>

\* all sequences over S of length at most n
SeqsUpTo(S, n) == UNION {[1..k -> S] : k \in 0..n}

\* ---------------------------------------------------------------- indexing
\* the chunk indices of one file that index_files turns into points, mutated:
\* blank chunks are not skipped
KeptChunksKeepBlank(f, chunks, bad) ==
    {i \in 0..(Len(chunks) - 1) : \A j \in 0..i : << f, j >> \notin bad}

\* the chunk indices of one file that index_files turns into points: the loop
\* over enumerate(chunks) skips blank chunks and is left, by the except branch,
\* at the first chunk whose embedding call raises (bad holds those chunks)
KeptChunks(f, chunks, bad) ==
    {i \in 0..(Len(chunks) - 1) :
        /\ ~IsBlank(chunks[i + 1])
        /\ \A j \in 0..i : IsBlank(chunks[j + 1]) \/ << f, j >> \notin bad}

\* the i-th smallest element (from 1) of a finite set of numbers
RECURSIVE NthSmallest(_, _)
NthSmallest(S, i) ==
    LET m == CHOOSE x \in S : \A y \in S : x <= y
    IN  IF i = 1 THEN m ELSE NthSmallest(S \ {m}, i - 1)

\* the points index_files builds for the files of one call, in order, with
\* fresh ids from firstId on; a file whose _chunk_text raises adds none
RECURSIVE FilePoints(_, _, _, _)
FilePoints(tag, files, bad, firstId) ==
    IF files = << >>
    THEN << >>
    ELSE LET f == Head(files)
             res == ChunkText(FileContent(f), DefaultMaxTokens, DefaultOverlap)
             chunks == res.chunks
             kept == IF res.status = "ok" THEN KeptChunks(f, chunks, bad) ELSE {}
             n == Cardinality(kept)
             mine == [k \in 1..n |->
                        LET i == NthSmallest(kept, k)
                        IN  [id |-> firstId + k - 1,
                             text |-> chunks[i + 1],
                             tag |-> tag,
                             file_name |-> f,
                             chunk_index |-> i,
                             total_chunks |-> Len(chunks)]]
         IN  mine \o FilePoints(tag, Tail(files), bad, firstId + n)

SeqRange(s) == {s[i] : i \in DOMAIN s}

\* the files of one call for which "Error processing ..." is printed: an
\* embedding call of one of their non-blank chunks raises, or _chunk_text does
FileErrors(files, bad) ==
    {f \in SeqRange(files) :
        LET res == ChunkText(FileContent(f), DefaultMaxTokens, DefaultOverlap)
        IN  \/ res.status # "ok"
            \/ \E j \in 0..(Len(res.chunks) - 1) :
                  ~IsBlank(res.chunks[j + 1]) /\ << f, j >> \in bad}

\* last_index before any index_files call
NoIndexCall == [tag |-> "absent", files |-> {}, errors |-> {}, ids |-> {}]

\* the state change of Qdrant.index_files(tag, file_pattern): files is what
\* the pattern matches, bad the chunks whose embedding call fails; the points
\* of all files are upserted in one call
IndexFilesUpdate(tag, files, bad) ==
    /\ Cardinality(index) < MaxPoints
    /\ LET points == FilePoints(tag, files, bad, nextId)
       IN  /\ index' = index \cup SeqRange(points)
           /\ nextId' = nextId + Len(points)

\* Qdrant.index_files(tag, file_pattern), run beside the interactive loop
IndexFiles(tag, files, bad) ==
    /\ IndexFilesUpdate(tag, files, bad)
    /\ UNCHANGED << ckvars, edvars, manifest, pc, selected_category, turnvars,
                    last_index >>

\* Qdrant.index_files(tag, file_pattern) with a record of the call: its tag,
\* its files, the files it reported an error for and the ids it upserted
IndexFilesLogged(tag, files, bad) ==
    /\ IndexFilesUpdate(tag, files, bad)
    /\ last_index' = [tag |-> tag,
                      files |-> SeqRange(files),
                      errors |-> FileErrors(files, bad),
                      ids |-> nextId..(nextId' - 1)]
    /\ UNCHANGED << ckvars, edvars, manifest, pc, selected_category, turnvars >>

\* ------------------------------------------------------------------ search
\* the filter of search_similar, mutated: no filter at all
MatchesAnyTag(point, tag) == TRUE

\* the filter of search_similar: must = [FieldCondition(key="tag",
\* match=MatchValue(value=tag))]
MatchesFilter(point, tag) == point.tag = tag

\* the orders in which the collection can rank a set of points for a query
\* vector (the similarity to the query is decided by the embedding model)
Rankings(points) ==
    {r \in [1..Cardinality(points) -> points] :
        \A i, j \in DOMAIN r : i # j => r[i] # r[j]}

\* what search_similar(tag, query, limit) can return on the collection: the
\* limit best matching points, best first, as result dictionaries
SearchSimilar(tag, limit) ==
    LET matching == {p \in index : MatchesFilter(p, tag)}
        n == Cardinality(matching)
    IN  {[k \in 1..Min(limit, n) |->
             [id |-> r[k].id,
              text |-> r[k].text,
              file_name |-> r[k].file_name,
              chunk_index |-> r[k].chunk_index,
              score |-> n - k + 1]] : r \in Rankings(matching)}

\* -------------------------------------------------------------- classifier
\* MessageType (StrEnum, auto())
MessageTypeQUERY == "query"
MessageTypeFEEDBACK == "feedback"
MessageTypeOTHER == "other"

\* the free-text messages a user types
Messages == {"please always cite your sources"}

\* the instruction a model writes when it rewrites a feedback message
Rewritten(m) == "Include source citations in every response"

\* the contents response.choices[0].message.content can have in
\* feedback_or_query: JSON of the expected structure, JSON with another type
\* value, JSON objects and values of another shape, text that is not JSON, None
ClassifierContents(m) ==
    { [kind |-> "json", shape |-> "dict", type |-> MessageTypeQUERY, response |-> m],
      [kind |-> "json", shape |-> "dict", type |-> MessageTypeFEEDBACK, response |-> Rewritten(m)],
      [kind |-> "json", shape |-> "dict", type |-> MessageTypeOTHER, response |-> m],
      [kind |-> "json", shape |-> "dict", type |-> "banana", response |-> m],
      [kind |-> "json", shape |-> "dict", type |-> "absent", response |-> "absent"],
      [kind |-> "json", shape |-> "list", type |-> "absent", response |-> "absent"],
      [kind |-> "text", shape |-> "absent", type |-> "absent", response |-> "absent"],
      [kind |-> "none", shape |-> "absent", type |-> "absent", response |-> "absent"] }

\* feedback_or_query(message) once the completion call has returned content:
\* json.loads(content) is returned as it is, and any exception of json.loads
\* gives {"type": MessageType.OTHER, "response": message}
FeedbackOrQuery(m, content) ==
    IF content.kind = "json"
    THEN [shape |-> content.shape, type |-> content.type, response |-> content.response]
    ELSE [shape |-> "dict", type |-> MessageTypeOTHER, response |-> m]

\* ---------------------------------------------------------------- manifest
PlaceholderTokens == {"{information}", "{query}", "{template}"}

\* the placeholder tokens of a manifest text
Placeholders(text) == {text[i] : i \in DOMAIN text} \cap PlaceholderTokens

\* manifest/manifest.txt as shipped
InitialManifest == << "Answer from the information.", "{information}", "{query}" >>

\* the documents a completion call can return for a manifest edit
ManifestRewrites ==
    { << "Answer and cite sources.", "{information}", "{query}" >>,
      << "Answer and cite sources.", "{query}", "{template}" >> }

\* f"Error generating response: {e}"
ErrorResponse == << "Error generating response: " >>

\* generate_manifest_change(feedback): ok is FALSE when the completion call
\* raises, content is what it returns otherwise; the manifest read raises when
\* the file is missing
GenerateManifestChange(ok, content) ==
    IF ~manifest.exists
    THEN [raised |-> TRUE, text |-> << >>]
    ELSE IF ok
    THEN [raised |-> FALSE, text |-> content]
    ELSE [raised |-> FALSE, text |-> ErrorResponse]

\* manifest.format(information=context, query=question): a replacement field
\* that is neither of the two raises KeyError
RECURSIVE Substitute(_, _, _)
Substitute(text, information, question) ==
    IF text = << >>
    THEN << >>
    ELSE (CASE Head(text) = "{information}" -> information
            [] Head(text) = "{query}" -> << question >>
            [] OTHER -> << Head(text) >>)
         \o Substitute(Tail(text), information, question)

Format(text, information, question) ==
    IF Placeholders(text) \subseteq {"{information}", "{query}"}
    THEN [raised |-> FALSE, text |-> Substitute(text, information, question)]
    ELSE [raised |-> TRUE, text |-> << >>]

\* ------------------------------------------------------- context assembly
\* the max_context_length arguments tried
Budgets == {1, 2, 4, DefaultMaxContextLength}

NoInfoMsg == << "I couldn't find any relevant information to answer your question." >>

\* what a completion call returns as an answer
AnswerText == << "an answer" >>

\* "if not search_results", mutated: the short cut is never taken
NeverEmpty(results) == FALSE

\* "if not search_results"
NoResults(results) == results = << >>

\* the loop of query_with_rag over search_results: context_pieces
RECURSIVE ContextPieces(_, _, _)
ContextPieces(results, total_tokens, max_context_length) ==
    IF results = << >>
    THEN << >>
    ELSE LET text == Head(results).text
             tokens == Len(Encode(text))
         IN  IF total_tokens + tokens > max_context_length
             THEN << >>
             ELSE << << "From ", Head(results).file_name, ":\n" >> \o text >>
                  \o ContextPieces(Tail(results), total_tokens + tokens,
                                   max_context_length)

\* "\n\n".join(context_pieces)
RECURSIVE Join(_)
Join(pieces) ==
    IF pieces = << >> THEN << >>
    ELSE IF Len(pieces) = 1 THEN Head(pieces)
    ELSE Head(pieces) \o << "\n\n" >> \o Join(Tail(pieces))

\* --------------------------------------------------------------- main loop
\* what the user can type at the prompt (after strip())
Inputs == {"quit", "Q", "change-category", ""} \cup Messages

\* str.lower()
Lower(m) == IF m = "Q" THEN "q" ELSE m

\* "except Exception as e: print(...)" of the loop, mutated: the exception
\* ends the loop
OnExceptionExit == "exited"

\* "except Exception as e: print(...)" of the loop: the loop goes on
OnException == "awaiting"

\* the argument main() hands to update_manifest
FeedbackArgument == message

NoType == [shape |-> "none", type |-> "absent", response |-> "absent"]

NoContent == [kind |-> "absent", shape |-> "absent", type |-> "absent", response |-> "absent"]

\* the turn variables before anything of the turn has run
BlankTurn(m) ==
    /\ message' = m
    /\ classifier_content' = NoContent
    /\ message_with_type' = NoType
    /\ feedback' = "absent"
    /\ revised' = << >>
    /\ search_tag' = "absent"
    /\ search_results' = << >>
    /\ budget' = 0
    /\ context' = << >>
    /\ answer' = << >>
    /\ calls' = << >>
    /\ output' = "none"
    /\ raised' = "none"

NotCalled == [status |-> "none", chunks |-> << >>]

\* the concurrent feedback turns of SpecEdit
Workers == {"turn1", "turn2"}

\* no concurrent feedback turn is running
EditIdle ==
    /\ epc = [w \in Workers |-> "idle"]
    /\ efeedback = [w \in Workers |-> "absent"]
    /\ eread = [w \in Workers |-> << >>]
    /\ erevised = [w \in Workers |-> << >>]

Init ==
    /\ ck_text = << >>
    /\ ck_max_tokens = DefaultMaxTokens
    /\ ck_overlap = DefaultOverlap
    /\ ck_result = NotCalled
    /\ index = {}
    /\ nextId = 1
    /\ manifest \in {[exists |-> TRUE, text |-> InitialManifest],
                     [exists |-> FALSE, text |-> << >>]}
    /\ pc = "awaiting"
    /\ selected_category \in Categories \cup {None}
    /\ message = ""
    /\ classifier_content = NoContent
    /\ message_with_type = NoType
    /\ feedback = "absent"
    /\ revised = << >>
    /\ search_tag = "absent"
    /\ search_results = << >>
    /\ budget = 0
    /\ context = << >>
    /\ answer = << >>
    /\ calls = << >>
    /\ output = "none"
    /\ raised = "none"
    /\ last_index = NoIndexCall
    /\ EditIdle

\* input(...).strip() and the tests on it before the try block
ReadMessage(m) ==
    /\ pc = "awaiting"
    /\ BlankTurn(m)
    /\ pc' = IF Lower(m) \in {"quit", "exit", "q"} THEN "exited"
             ELSE IF Lower(m) = "change-category" THEN "selecting"
             ELSE IF m = "" THEN "awaiting"
             ELSE "classifying"
    /\ UNCHANGED << ckvars, edvars, dbvars, manifest, selected_category >>

\* select_category(categories) after 'change-category': choice is a category,
\* None for "All categories", or "False" when the user interrupts
SelectCategory(choice) ==
    /\ pc = "selecting"
    /\ IF choice = "False"
       THEN pc' = "exited" /\ UNCHANGED selected_category
       ELSE pc' = "awaiting" /\ selected_category' = choice
    /\ UNCHANGED << ckvars, edvars, dbvars, manifest, turnvars >>

\* the branch main() takes on message_with_type
Dispatch(r) ==
    IF r.shape # "dict" \/ r.type = "absent" THEN "exception"
    ELSE IF r.type = MessageTypeQUERY THEN "answering"
    ELSE IF r.type = MessageTypeFEEDBACK THEN "editing"
    ELSE "answering"

ClassifyPrompt(m) == << "Analyze if the following message is a feedback or a query.", m >>

\* rag.feedback_or_query(message) and the choice of the branch; ok is FALSE
\* when the completion call raises, content is what it returns otherwise
Classify ==
    /\ pc = "classifying"
    /\ \E ok \in BOOLEAN : \E content \in ClassifierContents(message) :
          IF ~ok
          THEN /\ pc' = OnException
               /\ output' = "error"
               /\ raised' = "APIError"
               /\ UNCHANGED << classifier_content, message_with_type >>
          ELSE LET r == FeedbackOrQuery(message, content)
               IN  /\ classifier_content' = content
                   /\ message_with_type' = r
                   /\ IF Dispatch(r) = "exception"
                      THEN /\ pc' = OnException
                           /\ output' = "error"
                           /\ raised' = IF r.shape # "dict" THEN "TypeError" ELSE "KeyError"
                      ELSE pc' = Dispatch(r) /\ UNCHANGED << output, raised >>
    /\ calls' = Append(calls, [purpose |-> "classify", prompt |-> ClassifyPrompt(message)])
    /\ UNCHANGED << ckvars, edvars, dbvars, manifest, selected_category, message, feedback,
                    revised, search_tag, search_results, budget, context, answer >>

\* the turn ends with the exception e caught by main()
TurnRaises(e) ==
    /\ pc' = OnException
    /\ output' = "error"
    /\ raised' = e

\* rag.query_with_rag(selected_category, message) and the print of the answer.
\* max_context_length is the caller's argument (main() leaves the default);
\* embOk is FALSE when the embedding call of the search raises; ok is FALSE
\* when the completion call raises.
\* MatchValue(value=None) is rejected by the client's model validation.
QueryWithRag(max_context_length, embOk, ok) ==
    /\ pc = "answering"
    /\ search_tag' = selected_category
    /\ budget' = max_context_length
    /\ IF ~embOk \/ selected_category = None
       THEN /\ TurnRaises(IF ~embOk THEN "APIError" ELSE "ValidationError")
            /\ UNCHANGED << search_results, context, answer, calls >>
       ELSE \E ranked \in SearchSimilar(selected_category, QueryLimit) :
            /\ search_results' = ranked
            /\ IF NoResults(ranked)
               THEN /\ answer' = NoInfoMsg
                    /\ pc' = "awaiting"
                    /\ output' = "answer"
                    /\ UNCHANGED << context, calls, raised >>
               ELSE LET ctx == Join(ContextPieces(ranked, 0, max_context_length))
                        prompt == Format(manifest.text, ctx, message)
                    IN  /\ context' = ctx
                        /\ IF ~manifest.exists \/ prompt.raised
                           THEN /\ TurnRaises(IF ~manifest.exists
                                              THEN "FileNotFoundError" ELSE "KeyError")
                                /\ UNCHANGED << answer, calls >>
                           ELSE /\ calls' = Append(calls, [purpose |-> "answer",
                                                           prompt |-> prompt.text])
                                /\ answer' = IF ok THEN AnswerText ELSE ErrorResponse
                                /\ pc' = "awaiting"
                                /\ output' = "answer"
                                /\ UNCHANGED raised
    /\ UNCHANGED << ckvars, edvars, dbvars, manifest, selected_category, message,
                    classifier_content, message_with_type, feedback, revised >>

EditPrompt(text, fb) ==
    << "Modify the document according to the user feedback." >> \o text \o << fb >>

\* update_manifest(rag, message): generate_manifest_change on the argument,
\* then the revised text replaces the stored manifest
UpdateManifest(ok, content) ==
    /\ pc = "editing"
    /\ feedback' = FeedbackArgument
    /\ LET res == GenerateManifestChange(ok, content)
       IN  IF res.raised
           THEN /\ TurnRaises("FileNotFoundError")
                /\ UNCHANGED << manifest, revised, calls >>
           ELSE /\ calls' = Append(calls, [purpose |-> "edit",
                                           prompt |-> EditPrompt(manifest.text, FeedbackArgument)])
                /\ revised' = res.text
                /\ manifest' = [exists |-> TRUE, text |-> res.text]
                /\ pc' = "awaiting"
                /\ output' = "updated"
                /\ UNCHANGED raised
    /\ UNCHANGED << ckvars, edvars, dbvars, selected_category, message, classifier_content,
                    message_with_type, search_tag, search_results, budget, context, answer >>

\* the embedding calls that can fail in one index_files call
BadSets(files) == {{}} \cup {{<< f, 0 >>} : f \in SeqRange(files)}

Next ==
    \/ \E m \in Inputs : ReadMessage(m)
    \/ \E c \in Categories \cup {None, "False"} : SelectCategory(c)
    \/ Classify
    \/ \E b \in Budgets : \E embOk, ok \in BOOLEAN : QueryWithRag(b, embOk, ok)
    \/ \E ok \in BOOLEAN : \E content \in ManifestRewrites : UpdateManifest(ok, content)
    \/ \E tag \in Categories : \E files \in GlobResults : \E bad \in BadSets(files) :
          IndexFiles(tag, files, bad)

Spec == Init /\ [][Next]_vars

\* ------------------------------------------------ _chunk_text on its own
InitChunk ==
    /\ ck_text \in {Decode(t) : t \in SeqsUpTo(DocTokens, MaxLen)}
    /\ ck_max_tokens \in 0..MaxMT
    /\ ck_overlap \in 0..MaxOv
    /\ ck_result = NotCalled
    /\ index = {}
    /\ nextId = 1
    /\ manifest = [exists |-> TRUE, text |-> InitialManifest]
    /\ pc = "awaiting"
    /\ selected_category = None
    /\ message = ""
    /\ classifier_content = NoContent
    /\ message_with_type = NoType
    /\ feedback = "absent"
    /\ revised = << >>
    /\ search_tag = "absent"
    /\ search_results = << >>
    /\ budget = 0
    /\ context = << >>
    /\ answer = << >>
    /\ calls = << >>
    /\ output = "none"
    /\ raised = "none"
    /\ last_index = NoIndexCall
    /\ EditIdle

\* one call of _chunk_text with the drawn arguments
ChunkCall ==
    /\ ck_result = NotCalled
    /\ ck_result' = ChunkText(ck_text, ck_max_tokens, ck_overlap)
    /\ UNCHANGED << ck_text, ck_max_tokens, ck_overlap, dbvars, manifest, pc,
                    selected_category, turnvars, edvars >>

NextChunk == ChunkCall

SpecChunk == InitChunk /\ [][NextChunk]_vars

\* ------------------------------------------ concurrent feedback turns
\* the variables of the interactive loop, the collection and _chunk_text at
\* rest
MainIdle ==
    /\ ck_text = << >>
    /\ ck_max_tokens = DefaultMaxTokens
    /\ ck_overlap = DefaultOverlap
    /\ ck_result = NotCalled
    /\ index = {}
    /\ nextId = 1
    /\ last_index = NoIndexCall
    /\ pc = "awaiting"
    /\ selected_category = None
    /\ message = ""
    /\ classifier_content = NoContent
    /\ message_with_type = NoType
    /\ feedback = "absent"
    /\ revised = << >>
    /\ search_tag = "absent"
    /\ search_results = << >>
    /\ budget = 0
    /\ context = << >>
    /\ answer = << >>
    /\ calls = << >>
    /\ output = "none"
    /\ raised = "none"

mainvars == << ckvars, dbvars, pc, selected_category, turnvars >>

\* the feedback messages of the concurrent turns
EditFeedbacks == {"please always cite your sources", "please answer briefly"}

\* the document a completion call returns when it follows the feedback: the
\* manifest it was given, with the instruction added
Applied(text, fb) == Append(text, fb)

InitEdit ==
    /\ MainIdle
    /\ manifest = [exists |-> TRUE, text |-> InitialManifest]
    /\ EditIdle

\* generate_manifest_change(feedback), first part: the manifest file is read
EditRead(w, fb) ==
    /\ epc[w] = "idle"
    /\ manifest.exists
    /\ epc' = [epc EXCEPT ![w] = "read"]
    /\ efeedback' = [efeedback EXCEPT ![w] = fb]
    /\ eread' = [eread EXCEPT ![w] = manifest.text]
    /\ UNCHANGED << mainvars, manifest, erevised >>

\* generate_manifest_change(feedback), second part: the completion call on
\* the text read, and the return of its content or of the error string
EditComplete(w, ok) ==
    /\ epc[w] = "read"
    /\ epc' = [epc EXCEPT ![w] = "called"]
    /\ erevised' = [erevised EXCEPT ![w] =
                        IF ok THEN Applied(eread[w], efeedback[w]) ELSE ErrorResponse]
    /\ UNCHANGED << mainvars, manifest, efeedback, eread >>

\* update_manifest: the revised text replaces the stored manifest
EditWrite(w) ==
    /\ epc[w] = "called"
    /\ epc' = [epc EXCEPT ![w] = "done"]
    /\ manifest' = [exists |-> TRUE, text |-> erevised[w]]
    /\ UNCHANGED << mainvars, efeedback, eread, erevised >>

NextEdit ==
    \/ \E w \in Workers : \E fb \in EditFeedbacks : EditRead(w, fb)
    \/ \E w \in Workers : \E ok \in BOOLEAN : EditComplete(w, ok)
    \/ \E w \in Workers : EditWrite(w)

SpecEdit == InitEdit /\ [][NextEdit]_vars

\* ------------------------------------------------ index_files on its own
\* the embedding calls that can fail in one index_files call on long documents
LongBadSets(files) ==
    {{}} \cup {{<< f, j >>} : f \in SeqRange(files), j \in 0..2}

InitIndex ==
    /\ MainIdle
    /\ manifest = [exists |-> TRUE, text |-> InitialManifest]
    /\ EditIdle

NextIndex ==
    \E tag \in Categories : \E files \in LongGlobResults : \E bad \in LongBadSets(files) :
        IndexFilesLogged(tag, files, bad)

SpecIndex == InitIndex /\ [][NextIndex]_vars

\* ================================================================== claims

\* C1: every hit that search_similar returns for the tag filter A belongs to a
\* point of the collection whose stored payload tag is A; no point indexed
\* under another tag is returned.
C1_HitsCarryTheFilterTag ==
    \A k \in DOMAIN search_results :
        \E p \in index : p.id = search_results[k].id /\ p.tag = search_tag

\* C1 witness: a filtered search returned hits while the collection also held
\* a point of another tag.
C1_Witness ==
    /\ search_results # << >>
    /\ \E p \in index : p.tag # search_tag

C3_ContextWithinBudget == output = "answer" => Len(Encode(context)) <= budget

\* C4 (as claimed): when there are hits but every hit alone exceeds the
\* budget, the turn ends with the no-context outcome of an empty hit list and
\* no completion call is sent for an answer.
C4_NoContextSignalled ==
    ( /\ output = "answer"
      /\ search_results # << >>
      /\ \A k \in DOMAIN search_results :
            Len(Encode(search_results[k].text)) > budget ) =>
        /\ answer = NoInfoMsg
        /\ \A i \in DOMAIN calls : calls[i].purpose # "answer"

\* C5: for 0 <= overlap < max_tokens, _chunk_text returns exactly the windows
\* tokens[k*s : k*s + max_tokens], k = 0, 1, ... while k*s < n, in order, with
\* s = max_tokens - overlap; there are ceil(n / s) of them and two consecutive
\* full chunks share overlap tokens.
C5_ChunksAreTheWindows ==
    (ck_result.status # "none" /\ 0 <= ck_overlap /\ ck_overlap < ck_max_tokens) =>
        LET tokens == Encode(ck_text)
            n == Len(tokens)
            s == ck_max_tokens - ck_overlap
            count == (n + s - 1) \div s
            chunks == ck_result.chunks
        IN  /\ ck_result.status = "ok"
            /\ Len(chunks) = count
            /\ \A k \in 0..(count - 1) :
                  Encode(chunks[k + 1]) =
                      SubSeq(tokens, k * s + 1, Min(k * s + ck_max_tokens, n))
            /\ \A k \in 1..(count - 1) :
                  (Len(chunks[k]) = ck_max_tokens /\ Len(chunks[k + 1]) = ck_max_tokens) =>
                      SubSeq(chunks[k], s + 1, ck_max_tokens) =
                          SubSeq(chunks[k + 1], 1, ck_overlap)

\* C5 witness: a call with a positive overlap that produced three chunks or
\* more, two full ones among them.
C5_Witness ==
    /\ ck_result.status = "ok"
    /\ 1 <= ck_overlap /\ ck_overlap < ck_max_tokens
    /\ Len(ck_result.chunks) >= 3
    /\ Len(ck_result.chunks[1]) = ck_max_tokens
    /\ Len(ck_result.chunks[2]) = ck_max_tokens

\* C6 (as claimed): a call of _chunk_text with overlap >= max_tokens is
\* rejected with an error and returns no chunk list.
C6_BadStrideRejected ==
    (ck_result.status # "none" /\ ck_overlap >= ck_max_tokens) =>
        ck_result.status # "ok"

\* the {type, response} structure the classifier prompt asks for
ExpectedStructure(c) ==
    /\ c.kind = "json"
    /\ c.shape = "dict"
    /\ c.type \in {MessageTypeQUERY, MessageTypeFEEDBACK, MessageTypeOTHER}
    /\ c.response # "absent"

\* C7 (as claimed): the result of feedback_or_query has one of the three
\* message types and a response text, and it is {OTHER, original message}
\* whenever the model response is not of the expected structure.
C7_ClassifierFailsSoft ==
    message_with_type # NoType =>
        /\ message_with_type.shape = "dict"
        /\ message_with_type.type \in
              {MessageTypeQUERY, MessageTypeFEEDBACK, MessageTypeOTHER}
        /\ message_with_type.response # "absent"
        /\ ~ExpectedStructure(classifier_content) =>
              message_with_type =
                  [shape |-> "dict", type |-> MessageTypeOTHER, response |-> message]

\* C8 (as claimed): the text generate_manifest_change returns has the same
\* set of placeholder tokens as the manifest it read.
C8_PlaceholdersPreserved ==
    [][(pc = "editing" /\ output' = "updated") =>
          Placeholders(revised') = Placeholders(manifest.text)]_vars

ExitCommands == {"quit", "exit", "q"}

\* a step of the loop that reads the next input
ReadsInput == pc = "awaiting" /\ dbvars' = dbvars

\* C9 (as claimed): every non-empty turn is classified first, then takes the
\* one branch its classification names, the branch ends at awaiting, a
\* feedback turn gives no answer, and only the exit command leaves the loop.
C9_AsClaimed ==
    [][ /\ (ReadsInput /\ message' # "" /\ Lower(message') \notin ExitCommands)
              => pc' = "classifying"
        /\ (pc = "classifying" /\ pc' # pc) =>
              \/ /\ message_with_type'.type \in {MessageTypeQUERY, MessageTypeOTHER}
                 /\ pc' = "answering"
              \/ /\ message_with_type'.type = MessageTypeFEEDBACK
                 /\ pc' = "editing"
        /\ (pc \in {"answering", "editing"} /\ pc' # pc) => pc' = "awaiting"
        /\ (pc = "editing" /\ pc' # pc) => output' # "answer"
        /\ (pc' = "exited" /\ pc # "exited") =>
              (pc = "awaiting" /\ Lower(message') \in ExitCommands) ]_vars

\* C9 (amended): a non-empty input that is neither an exit command nor
\* 'change-category' is classified first; when the classification returns a
\* result with a type the turn takes exactly one branch, the manifest edit for
\* FEEDBACK and retrieval and answering with the selected category for any
\* other type, and otherwise (the classification raised or its result has no
\* type) no branch runs; a branch, also one that raises, ends at awaiting and
\* a feedback branch gives no answer; the loop is left only by an exit command
\* or from the category selection that 'change-category' starts.
C9_TurnStateMachine ==
    [][ /\ (ReadsInput /\ message' # ""
              /\ Lower(message') \notin ExitCommands \cup {"change-category"})
              => pc' = "classifying"
        /\ (pc' = "classifying" /\ pc # pc') => pc = "awaiting"
        /\ (pc = "classifying" /\ pc' # pc) =>
              IF message_with_type'.shape = "dict" /\ message_with_type'.type # "absent"
              THEN pc' = IF message_with_type'.type = MessageTypeFEEDBACK
                         THEN "editing" ELSE "answering"
              ELSE pc' = "awaiting" /\ output' = "error"
        /\ (pc' \in {"answering", "editing"} /\ pc # pc') => pc = "classifying"
        /\ (pc = "answering" /\ pc' # pc) =>
              pc' = "awaiting" /\ search_tag' = selected_category
        /\ (pc = "editing" /\ pc' # pc) =>
              pc' = "awaiting" /\ output' # "answer" /\ answer' = << >>
        /\ (pc' = "exited" /\ pc # "exited") =>
              \/ pc = "awaiting" /\ Lower(message') \in ExitCommands
              \/ pc = "selecting" ]_vars

\* C9 witness: a branch was taken, raised an exception, and the loop is back
\* at awaiting the next message.
C9_Witness ==
    /\ pc = "awaiting"
    /\ output = "error"
    /\ message_with_type.type \in {MessageTypeQUERY, MessageTypeFEEDBACK, MessageTypeOTHER}

\* C10 (as claimed): the feedback handed to the manifest edit is the response
\* field of the classification result.
C10_RewrittenInstructionUsed ==
    feedback # "absent" => feedback = message_with_type.response

C12_NoneSearchesAllCategories ==
    [][ ( /\ pc = "answering"
          /\ pc' = "awaiting"
          /\ selected_category = None
          /\ index # {}
          /\ raised' # "APIError" ) =>
        ( /\ raised' # "ValidationError"
          /\ search_results' # << >> ) ]_vars

\* the number of chunks of a file of n tokens: the windows start at 0, step,
\* 2 * step, ... below n
ChunkCount(n) ==
    LET step == DefaultMaxTokens - DefaultOverlap
    IN  (n + step - 1) \div step

\* the i-th window (from 0) of a file's content is whitespace only
BlankWindow(f, i) ==
    LET step == DefaultMaxTokens - DefaultOverlap
        lo == i * step + 1
        hi == Min(i * step + DefaultMaxTokens, Len(FileContent(f)))
    IN  \A k \in lo..hi : FileContent(f)[k] \in {" ", "\n\n"}

\* the records the last index_files call upserted for file f
UpsertedFor(f) == {p \in index : p.id \in last_index.ids /\ p.file_name = f}

\* C13: for every file of an index_files(tag, pattern) call, no upserted
\* record is whitespace only, and every upserted record of the file carries the
\* call's tag, a zero-based chunk_index below total_chunks that no other record
\* of the file has, and total_chunks equal to the file's chunk count N; when no
\* chunk is whitespace only and nothing fails for the file, the file has
\* exactly N records with the indices 0..N-1.
C13_IndexedRecords ==
    \A f \in last_index.files :
        LET N == ChunkCount(Len(FileContent(f)))
            mine == UpsertedFor(f)
        IN  /\ \A p \in mine :
                  /\ ~IsBlank(p.text)
                  /\ p.tag = last_index.tag
                  /\ p.chunk_index \in 0..(p.total_chunks - 1)
                  /\ p.total_chunks = N
            /\ \A p, q \in mine : p.chunk_index = q.chunk_index => p = q
            /\ ( /\ f \notin last_index.errors
                 /\ \A i \in 0..(N - 1) : ~BlankWindow(f, i) ) =>
                   /\ Cardinality(mine) = N
                   /\ {p.chunk_index : p \in mine} = 0..(N - 1)

\* C13 witness: a call with tag categoryA has indexed the 1200-token file
\* without a failure: 3 records with indices 0, 1, 2 and total_chunks 3
C13_Witness ==
    /\ last_index.tag = "categoryA"
    /\ "d.txt" \in last_index.files \ last_index.errors
    /\ Cardinality(UpsertedFor("d.txt")) = 3
    /\ {p.chunk_index : p \in UpsertedFor("d.txt")} = {0, 1, 2}
    /\ \A p \in UpsertedFor("d.txt") : p.total_chunks = 3 /\ p.tag = "categoryA"

====
